---- MODULE Spec2Model ----
(***************************************************************************)
(* Model of api/feel.js (khayrah-ai-backend): the serverless handler, the  *)
(* citation parser parseQuranRef, the URL builder husaryUrl and their      *)
(* composition audioFromRef.                                               *)
(*                                                                         *)
(* A JavaScript string is a sequence of characters, each character a       *)
(* one-element token ("Q", " ", "5", ...).  The en-dash U+2013 is the      *)
(* token EnDash.  A JavaScript value is a record tagged by its type.       *)
(***************************************************************************)
EXTENDS Integers, Sequences, FiniteSets, TLC

VARIABLES
    cite,       \* the pieces the citation under test was assembled from
    ref,        \* the argument handed to parseQuranRef / audioFromRef
    coords,     \* outcome of parseQuranRef(ref)
    audio,      \* outcome of audioFromRef(ref)
    coord,      \* the argument handed to husaryUrl
    url,        \* outcome of husaryUrl(coord)
    pc,         \* position of the handler: "start", "awaitFetch", "done"
                \* ("idle" where the handler does not run)
    req,        \* the inbound request: method and body
    apiKey,     \* process.env.OPENAI_API_KEY
    fetchCalls, \* number of outbound calls to the completion API
    upstream,   \* the reply the completion API gave
    out,        \* the handler's local `out` (parsed, enriched payload)
    res         \* the response sent: status and body

vars == <<cite, ref, coords, audio, coord, url,
          pc, req, apiKey, fetchCalls, upstream, out, res>>

-----------------------------------------------------------------------------
(* Bounds of the model *)

MaxChapter == 2
MaxVerse == 3
MaxSmall == 11

-----------------------------------------------------------------------------
(* JavaScript values *)

Undefined == [t |-> "undefined"]
Null == [t |-> "null"]
JsStr(s) == [t |-> "string", v |-> s]
JsNum(n) == [t |-> "number", v |-> n]
JsArray == [t |-> "array"]
JsObject == [t |-> "object"]

\* ToBoolean: what `!x` and `x ? .. : ..` test
Truthy(x) ==
    CASE x.t = "undefined" -> FALSE
      [] x.t = "null" -> FALSE
      [] x.t = "string" -> Len(x.v) > 0
      [] x.t = "number" -> x.v # 0
      [] OTHER -> TRUE

\* outcomes of a call: a returned value or a thrown error
Return(v) == [kind |-> "return", val |-> v]
Throw(e) == [kind |-> "throw", error |-> e]
Pending == [kind |-> "pending"]

-----------------------------------------------------------------------------
(* Characters *)

EnDash == "en-dash"
Digits == <<"0", "1", "2", "3", "4", "5", "6", "7", "8", "9">>

IsDigit(c) == \E d \in 1..10 : Digits[d] = c
DigitVal(c) == (CHOOSE d \in 1..10 : Digits[d] = c) - 1

\* \s of the pattern (space and tab stand for the whitespace class)
IsSpace(c) == c \in {" ", "\t"}

\* [en-dash, hyphen] of the pattern
IsDash(c) == c \in {EnDash, "-"}

\* mutant: the pattern without the /i flag
FoldNone(c) == c

\* the /i flag: letters compare after case folding
Fold(c) ==
    CASE c = "Q" -> "q"
      [] c = "U" -> "u"
      [] c = "R" -> "r"
      [] c = "A" -> "a"
      [] c = "N" -> "n"
      [] OTHER -> c

\* does letter `l` (lower case) stand at position i of str, ignoring case
LetterAt(str, i, l) == i >= 1 /\ i <= Len(str) /\ Fold(str[i]) = l
CharAt(str, i, c) == i >= 1 /\ i <= Len(str) /\ str[i] = c

-----------------------------------------------------------------------------
(* The pattern of parseQuranRef, matched as the regular-expression engine  *)
(* matches it: leftmost start, greedy quantifiers.                          *)

RECURSIVE SkipSpaces(_, _)
\* \s* from position i: the first position that holds no whitespace
SkipSpaces(str, i) ==
    IF i <= Len(str) /\ IsSpace(str[i]) THEN SkipSpaces(str, i + 1) ELSE i

RECURSIVE SkipDigits(_, _)
\* [0-9]* from position i: the first position that holds no digit
SkipDigits(str, i) ==
    IF i <= Len(str) /\ IsDigit(str[i]) THEN SkipDigits(str, i + 1) ELSE i

NoMatch == [ok |-> FALSE]

\* (?:\s*[en-dash -]\s*([0-9]+))? from position i: the captured digits, or
\* Undefined when the optional group does not take part in the match
MatchSuffix(str, i) ==
    LET d == SkipSpaces(str, i)
        b == SkipSpaces(str, d + 1)
        e == SkipDigits(str, b)
    IN  IF d <= Len(str) /\ IsDash(str[d]) /\ e > b
        THEN JsStr(SubSeq(str, b, e - 1))
        ELSE Undefined

\* \s*([0-9]+)\s*:\s*([0-9]+)(?:...)? from position i
MatchBody(str, i) ==
    LET c1 == SkipSpaces(str, i)
        c2 == SkipDigits(str, c1)
        k  == SkipSpaces(str, c2)
        v1 == SkipSpaces(str, k + 1)
        v2 == SkipDigits(str, v1)
    IN  IF c2 > c1 /\ CharAt(str, k, ":") /\ v2 > v1
        THEN [ok |-> TRUE,
              g1 |-> SubSeq(str, c1, c2 - 1),
              g2 |-> SubSeq(str, v1, v2 - 1),
              g3 |-> MatchSuffix(str, v2)]
        ELSE NoMatch

\* (?:ur'?an)? from position i: the position after "ur'an"/"uran", or 0
LongPrefixEnd(str, i) ==
    LET j == IF CharAt(str, i + 2, "'") THEN i + 3 ELSE i + 2
    IN  IF LetterAt(str, i, "u") /\ LetterAt(str, i + 1, "r")
           /\ LetterAt(str, j, "a") /\ LetterAt(str, j + 1, "n")
        THEN j + 2
        ELSE 0

\* the whole pattern anchored at position i: Q, then the optional long
\* prefix (tried first, given up when the rest fails), then the body
MatchAt(str, i) ==
    IF ~LetterAt(str, i, "q") THEN NoMatch
    ELSE LET p == LongPrefixEnd(str, i + 1)
             long == IF p > 0 THEN MatchBody(str, p) ELSE NoMatch
         IN  IF long.ok THEN long ELSE MatchBody(str, i + 1)

RECURSIVE SearchFrom(_, _)
SearchFrom(str, i) ==
    IF i > Len(str) THEN NoMatch
    ELSE LET m == MatchAt(str, i)
         IN  IF m.ok THEN m ELSE SearchFrom(str, i + 1)

\* ref.match(/Q(?:ur'?an)?\s*([0-9]+)\s*:\s*([0-9]+)(?:\s*[en-dash -]\s*([0-9]+))?/i)
RefMatch(str) == SearchFrom(str, 1)

RECURSIVE ParseIntFrom(_, _, _)
ParseIntFrom(ds, i, acc) ==
    IF i > Len(ds) THEN acc
    ELSE ParseIntFrom(ds, i + 1, acc * 10 + DigitVal(ds[i]))

\* parseInt(ds, 10) on a run of decimal digits
ParseInt(ds) == ParseIntFrom(ds, 1, 0)

RECURSIVE VerseLoop(_, _, _, _)
\* for (let a = a1; a <= a2; a++) out.push({ s, a })
VerseLoop(s, a, a2, acc) ==
    IF a <= a2 THEN VerseLoop(s, a + 1, a2, Append(acc, [s |-> s, a |-> a]))
    ELSE acc

\* mutant: the loop stops before the end verse (a < a2)
CoordsOfMatchExclusive(m) ==
    LET s  == ParseInt(m.g1)
        a1 == ParseInt(m.g2)
        a2 == IF Truthy(m.g3) THEN ParseInt(m.g3.v) ELSE a1
    IN  VerseLoop(s, a1, a2 - 1, <<>>)

\* mutant: no default for an absent end verse (parseInt(undefined) is NaN,
\* and a <= NaN never holds)
CoordsOfMatchNoDefault(m) ==
    LET s  == ParseInt(m.g1)
        a1 == ParseInt(m.g2)
    IN  IF Truthy(m.g3) THEN VerseLoop(s, a1, ParseInt(m.g3.v), <<>>) ELSE <<>>

\* mutant: the default written as parseInt(m[3],10) || a1, which also
\* replaces an end verse of 0
CoordsOfMatchOrDefault(m) ==
    LET s  == ParseInt(m.g1)
        a1 == ParseInt(m.g2)
        e  == IF Truthy(m.g3) THEN ParseInt(m.g3.v) ELSE 0
        a2 == IF e # 0 THEN e ELSE a1
    IN  VerseLoop(s, a1, a2, <<>>)

\* mutant: verses counted from zero (the loop starts at a1 - 1)
CoordsOfMatchZeroBased(m) ==
    LET s  == ParseInt(m.g1)
        a1 == ParseInt(m.g2)
        a2 == IF Truthy(m.g3) THEN ParseInt(m.g3.v) ELSE a1
    IN  VerseLoop(s, a1 - 1, a2 - 1, <<>>)

\* the part of parseQuranRef after the match succeeded
CoordsOfMatch(m) ==
    LET s  == ParseInt(m.g1)
        a1 == ParseInt(m.g2)
        a2 == IF Truthy(m.g3) THEN ParseInt(m.g3.v) ELSE a1
    IN  VerseLoop(s, a1, a2, <<>>)

\* lines 17-23: what parseQuranRef returns for the match result m
CoordsOrEmpty(m) == IF ~m.ok THEN Return(<<>>) ELSE Return(CoordsOfMatch(m))

\* mutant: the `if (!ref) return []` guard left out
parseQuranRefNoGuard(r) ==
    IF r.t # "string" THEN Throw("TypeError: ref.match is not a function")
    ELSE CoordsOrEmpty(RefMatch(r.v))

parseQuranRef(r) ==
    IF ~Truthy(r) THEN Return(<<>>)
    ELSE IF r.t # "string" THEN Throw("TypeError: ref.match is not a function")
    ELSE CoordsOrEmpty(RefMatch(r.v))

-----------------------------------------------------------------------------
(* husaryUrl and audioFromRef *)

RECURSIVE NumberToString(_)
\* String(n) for a non-negative integer: its decimal digits
NumberToString(n) ==
    IF n < 10 THEN <<Digits[n + 1]>>
    ELSE NumberToString(n \div 10) \o <<Digits[(n % 10) + 1]>>

RECURSIVE Repeat(_, _)
Repeat(c, n) == IF n = 0 THEN <<>> ELSE <<c>> \o Repeat(c, n - 1)

\* mutant: pad, then keep only the last `width` characters
PadStartFixed(str, width, c) ==
    LET p == Repeat(c, width) \o str
    IN  SubSeq(p, (Len(p) - width) + 1, Len(p))

\* str.padStart(width, c) for a one-character pad string
PadStart(str, width, c) ==
    IF Len(str) >= width THEN str ELSE Repeat(c, width - Len(str)) \o str

PadWidth == 3

UrlBase ==
    <<"h", "t", "t", "p", "s", ":", "/", "/", "w", "w", "w", ".", "e", "v",
      "e", "r", "y", "a", "y", "a", "h", ".", "c", "o", "m", "/", "d", "a",
      "t", "a", "/", "H", "u", "s", "a", "r", "y", "_", "1", "2", "8", "k",
      "b", "p", "s", "/">>
UrlExt == <<".", "m", "p", "3">>

husaryUrl(c) ==
    LET S == PadStart(NumberToString(c.s), PadWidth, "0")
        A == PadStart(NumberToString(c.a), PadWidth, "0")
    IN  UrlBase \o S \o A \o UrlExt

\* seq.map(husaryUrl)
UrlsOf(seq) == [i \in 1..Len(seq) |-> husaryUrl(seq[i])]

\* .map(husaryUrl) on the parser's outcome p: a throw of the parser propagates
MapHusaryUrl(p) == IF p.kind = "throw" THEN p ELSE Return(UrlsOf(p.val))

\* parseQuranRef(ref).map(husaryUrl)
audioFromRef(r) == MapHusaryUrl(parseQuranRef(r))

-----------------------------------------------------------------------------
(* Citations under test: assembled from a prefix, a chapter, a verse and   *)
(* an optional range suffix, with optional whitespace between the pieces.   *)

\* the decimal numeral of n < 1000, as a citation author writes it
Numeral(n) ==
    LET h == <<Digits[(n \div 100) + 1]>>
        t == <<Digits[((n \div 10) % 10) + 1]>>
        o == <<Digits[(n % 10) + 1]>>
    IN  IF n >= 100 THEN h \o t \o o ELSE IF n >= 10 THEN t \o o ELSE o

NoPrefix == <<>>
\* spellings the pattern accepts, in several letter cases
MarkerPrefixes ==
    { <<"Q">>, <<"q">>,
      <<"Q", "u", "r", "a", "n">>, <<"Q", "U", "R", "A", "N">>,
      <<"Q", "u", "r", "'", "a", "n">>, <<"q", "U", "r", "'", "A", "n">> }
\* spellings it does not accept
OtherPrefixes == { <<"Q", "u", "r">>, <<"S", "u", "r", "a", "h">> }
Prefixes == {NoPrefix} \cup MarkerPrefixes \cup OtherPrefixes

Gaps == { <<>>, <<" ">>, <<"\t", " ">> }
Pads == { <<>>, <<" ">> }
Dashes == { "-", EnDash }
Chapters == (0..MaxChapter) \cup {94}
Verses == (0..MaxVerse) \cup {11}

Suffixes ==
    {[kind |-> "none"]}
    \cup [kind : {"dangling"}, dash : Dashes]
    \cup [kind : {"range"}, dash : Dashes, end : Verses]

Citations ==
    [prefix : Prefixes, gap : Gaps, chapter : Chapters, pad : Pads,
     verse : Verses, suffix : Suffixes]

SuffixText(c) ==
    CASE c.suffix.kind = "none" -> <<>>
      [] c.suffix.kind = "dangling" -> c.pad \o <<c.suffix.dash>>
      [] c.suffix.kind = "range" ->
            c.pad \o <<c.suffix.dash>> \o c.pad \o Numeral(c.suffix.end)

CitationText(c) ==
    c.prefix \o c.gap \o Numeral(c.chapter) \o c.pad \o <<":">> \o c.pad
        \o Numeral(c.verse) \o SuffixText(c)

\* references that are no assembled citation: absent ones, other sources,
\* fragments of the pattern, and values that are no string
NotCited == [kind |-> "other"]
OtherRefs ==
    { Undefined, Null, JsStr(<<>>),
      JsStr(<<"B", "u", "k", "h", "a", "r", "i", " ", "6", "1", "1", "4">>),
      JsStr(<<"M", "u", "s", "l", "i", "m", " ", "2", "9", "9", "9">>),
      JsStr(<<"Q">>), JsStr(<<"Q", " ", "2">>), JsStr(<<"Q", " ", "2", ":">>),
      JsStr(<<"Q", " ", ":", "5">>), JsStr(<<"Q", "2", "-", "5">>),
      JsStr(<<"s", "e", "e", " ", "Q", " ", "2", ":", "5">>),
      JsStr(<<"Q", " ", "0", "0", "2", ":", "0", "0", "5">>),
      JsNum(0), JsNum(5), JsArray, JsObject }

-----------------------------------------------------------------------------
(* Values of the variables a specification does not use *)

IdleHandler ==
    /\ pc = "idle" /\ req = Undefined /\ apiKey = Undefined
    /\ fetchCalls = 0 /\ upstream = Undefined /\ out = Undefined
    /\ res = Undefined
IdleParser ==
    /\ cite = NotCited /\ ref = Undefined /\ coords = Pending /\ audio = Pending
IdleBuilder ==
    /\ coord = Undefined /\ url = Pending

handlerVars == <<pc, req, apiKey, fetchCalls, upstream, out, res>>
parserVars == <<cite, ref, coords, audio>>
builderVars == <<coord, url>>

-----------------------------------------------------------------------------
(* SpecParse: parseQuranRef and audioFromRef applied to one reference *)

InitParse ==
    /\ \/ \E c \in Citations : cite = c /\ ref = JsStr(CitationText(c))
       \/ \E r \in OtherRefs : cite = NotCited /\ ref = r
    /\ coords = Pending
    /\ audio = Pending
    /\ IdleBuilder
    /\ IdleHandler

CallParseQuranRef ==
    /\ coords = Pending
    /\ coords' = parseQuranRef(ref)
    /\ UNCHANGED <<cite, ref, audio, builderVars, handlerVars>>

CallAudioFromRef ==
    /\ audio = Pending
    /\ audio' = audioFromRef(ref)
    /\ UNCHANGED <<cite, ref, coords, builderVars, handlerVars>>

NextParse == CallParseQuranRef \/ CallAudioFromRef

SpecParse == InitParse /\ [][NextParse]_vars

-----------------------------------------------------------------------------
(* SpecUrl: husaryUrl applied to one verse coordinate *)

Numbers == (0..MaxSmall) \cup {94, 99, 100, 101, 286, 999, 1000, 1001, 12345}

InitUrl ==
    /\ coord \in [s : Numbers, a : Numbers]
    /\ url = Pending
    /\ IdleParser
    /\ IdleHandler

CallHusaryUrl ==
    /\ url = Pending
    /\ url' = Return(husaryUrl(coord))
    /\ UNCHANGED <<coord, parserVars, handlerVars>>

NextUrl == CallHusaryUrl

SpecUrl == InitUrl /\ [][NextUrl]_vars

-----------------------------------------------------------------------------
(* Vocabulary of the properties *)

\* the reference under test is an assembled citation
Cited == cite # NotCited
\* ... written with a spelling of the chapter marker that the pattern accepts
Marked == Cited /\ cite.prefix \in MarkerPrefixes
HasRange == cite.suffix.kind = "range"

\* (C,V1), (C,V1+1), ..., (C,V2), for V2 >= V1
RangeCoords(C, V1, V2) == [i \in 1..((V2 + 1) - V1) |-> [s |-> C, a |-> V1 + (i - 1)]]

AllSpaces(str, i, j) == \A k \in i..j : IsSpace(str[k])
AllDigits(str, i, j) == \A k \in i..j : IsDigit(str[k])

\* the positions just after a chapter marker that starts at position i
MarkerEnds(str, i) ==
    {i + 1}
    \cup (IF /\ LetterAt(str, i + 1, "u") /\ LetterAt(str, i + 2, "r")
             /\ LetterAt(str, i + 3, "a") /\ LetterAt(str, i + 4, "n")
          THEN {i + 5} ELSE {})
    \cup (IF /\ LetterAt(str, i + 1, "u") /\ LetterAt(str, i + 2, "r")
             /\ CharAt(str, i + 3, "'")
             /\ LetterAt(str, i + 4, "a") /\ LetterAt(str, i + 5, "n")
          THEN {i + 6} ELSE {})

\* the pattern occurs somewhere in str: some substring splits into marker,
\* spaces, digits, spaces, colon, spaces, digits (the grammar, read as a
\* grammar and not as a matching procedure)
PatternOccurs(str) ==
    LET n == Len(str) IN
    \E i \in 1..n :
        /\ LetterAt(str, i, "q")
        /\ \E j \in MarkerEnds(str, i) :
           \E c1 \in j..n :
              /\ AllSpaces(str, j, c1 - 1)
              /\ \E c2 \in (c1 + 1)..(n + 1) :
                 /\ AllDigits(str, c1, c2 - 1)
                 /\ \E k \in c2..n :
                    /\ AllSpaces(str, c2, k - 1)
                    /\ str[k] = ":"
                    /\ \E v1 \in (k + 1)..n :
                       /\ AllSpaces(str, k + 1, v1 - 1)
                       /\ IsDigit(str[v1])

-----------------------------------------------------------------------------
(* Properties of parseQuranRef and audioFromRef, checked under SpecParse *)

\* C1: a citation "Q C:V1-V2" (hyphen or en-dash) with V2 >= V1 parses to
\* exactly (C,V1), (C,V1+1), ..., (C,V2): V2-V1+1 coordinates in ascending
\* verse order, both endpoints included, none skipped or repeated, all with
\* chapter C.
C1_RangeInclusive ==
    (Marked /\ HasRange /\ cite.suffix.end >= cite.verse /\ coords # Pending) =>
        /\ coords.kind = "return"
        /\ Len(coords.val) = (cite.suffix.end + 1) - cite.verse
        /\ coords.val[1].a = cite.verse
        /\ coords.val[Len(coords.val)].a = cite.suffix.end
        /\ \A i \in 1..Len(coords.val) : coords.val[i].s = cite.chapter
        /\ \A i \in 1..(Len(coords.val) - 1) :
              coords.val[i + 1].a = coords.val[i].a + 1
        /\ coords.val = RangeCoords(cite.chapter, cite.verse, cite.suffix.end)

C1_Witness ==
    /\ Marked /\ HasRange
    /\ cite.suffix.dash = EnDash
    /\ cite.chapter = 94 /\ cite.verse = 2 /\ cite.suffix.end = 11
    /\ coords.kind = "return" /\ Len(coords.val) = 10

\* C2: a citation that matches with no range suffix ("Q C:V") parses to
\* exactly one coordinate, (C,V): the end verse defaults to the start verse.
C2_SingleVerse ==
    (Marked /\ ~HasRange /\ coords # Pending) =>
        coords = Return(<<[s |-> cite.chapter, a |-> cite.verse]>>)

C2_Witness ==
    /\ Marked /\ cite.suffix.kind = "none"
    /\ cite.chapter = 2 /\ cite.verse = 11
    /\ coords = Return(<<[s |-> 2, a |-> 11]>>)

\* C5: an absent citation (null, undefined, empty string) and a string in
\* which the pattern does not occur parse to the empty sequence and give
\* the empty audio list; neither call throws.
AbsentOrUnparseable ==
    \/ ref \in {Undefined, Null, JsStr(<<>>)}
    \/ ref.t = "string" /\ ~PatternOccurs(ref.v)

C5_UnparseableIsEmpty ==
    AbsentOrUnparseable =>
        /\ coords # Pending => coords = Return(<<>>)
        /\ audio # Pending => audio = Return(<<>>)

C5_Witness ==
    /\ ref = JsStr(<<"B", "u", "k", "h", "a", "r", "i", " ", "6", "1", "1", "4">>)
    /\ coords = Return(<<>>)
    /\ audio = Return(<<>>)

\* C6: a matched range citation whose end verse is smaller than its start
\* verse (V2 < V1, V2 = 0 included) parses to the empty sequence without an
\* error, and its audio list is empty.
C6_InvertedRangeIsEmpty ==
    (Marked /\ HasRange /\ cite.suffix.end < cite.verse) =>
        /\ coords # Pending => coords = Return(<<>>)
        /\ audio # Pending => audio = Return(<<>>)

C6_Witness ==
    /\ Marked /\ HasRange
    /\ cite.verse = 3 /\ cite.suffix.end = 0
    /\ coords = Return(<<>>)
    /\ audio = Return(<<>>)

\* C8 as claimed: every coordinate parseQuranRef returns has chapter >= 1
\* and verse >= 1.
C8_PositiveCoordinates ==
    coords.kind = "return" =>
        \A i \in 1..Len(coords.val) : coords.val[i].s >= 1 /\ coords.val[i].a >= 1

\* C8 as amended: every coordinate parseQuranRef returns has chapter >= 0
\* and verse >= 0, a zero component being possible (a citation that writes
\* chapter 0 or start verse 0 yields it); the components are all >= 1 when
\* the citation's chapter and start verse are.  (Numbers here are the
\* values of digit runs that parseInt represents exactly.)
C8_NonNegativeCoordinates ==
    coords.kind = "return" =>
        \A i \in 1..Len(coords.val) :
            /\ coords.val[i].s >= 0 /\ coords.val[i].a >= 0
            /\ (Cited /\ cite.chapter >= 1 /\ cite.verse >= 1) =>
                  coords.val[i].s >= 1 /\ coords.val[i].a >= 1

C8_Witness ==
    /\ Marked /\ cite.chapter = 0 /\ cite.verse = 0 /\ cite.suffix.kind = "none"
    /\ coords = Return(<<[s |-> 0, a |-> 0]>>)

\* the same citation written "Q C:V" / "Q C:V-V2": marker Q, one space,
\* nothing around the colon and the dash
Canonical(c) == [c EXCEPT !.prefix = <<"Q">>, !.gap = <<" ">>, !.pad = <<>>]
CanonicalCoords == parseQuranRef(JsStr(CitationText(Canonical(cite))))

\* C9 as claimed: the chapter marker is optional and case-insensitive: a
\* citation written with no prefix, or with Q, Quran or Qur'an in any letter
\* case, with or without whitespace after the prefix and around the colon,
\* parses to the same coordinates.
C9_PrefixOptional ==
    (Cited /\ cite.prefix \in MarkerPrefixes \cup {NoPrefix} /\ coords # Pending) =>
        coords = CanonicalCoords

\* C9 as amended: the chapter marker is required and case-insensitive: a
\* citation written with Q, Quran or Qur'an in any letter case, with or
\* without whitespace after the prefix and around the colon, parses to the
\* same coordinates; a citation written with no prefix at all ("C:V")
\* parses to the empty sequence.
C9_PrefixRequired ==
    /\ (Marked /\ coords # Pending) => coords = CanonicalCoords
    /\ (Cited /\ cite.prefix = NoPrefix /\ coords # Pending) => coords = Return(<<>>)

C9_Witness ==
    /\ Cited
    /\ cite.prefix = <<"q", "U", "r", "'", "A", "n">>
    /\ cite.gap = <<"\t", " ">> /\ cite.pad = <<" ">>
    /\ HasRange /\ cite.verse = 1 /\ cite.suffix.end = 2
    /\ coords = Return(<<[s |-> cite.chapter, a |-> 1], [s |-> cite.chapter, a |-> 2]>>)

-----------------------------------------------------------------------------
(* Property of husaryUrl, checked under SpecUrl *)

Digit(d) == Digits[d + 1]

\* n in decimal, left-padded with "0" to three characters, wider when
\* n >= 1000 (written out digit by digit, for n < 100000)
Pad3(n) ==
    LET low == <<Digit((n \div 100) % 10), Digit((n \div 10) % 10), Digit(n % 10)>>
    IN  IF n < 1000 THEN low
        ELSE IF n < 10000 THEN <<Digit(n \div 1000)>> \o low
        ELSE <<Digit(n \div 10000), Digit((n \div 1000) % 10)>> \o low

\* C3: for every coordinate (C,V), husaryUrl returns the base URL followed
\* by pad3(C), pad3(V) and ".mp3", where pad3 left-pads the decimal
\* rendering with "0" to width 3 and does not truncate values >= 1000;
\* (94,5) gives .../094005.mp3 and (2,286) gives .../002286.mp3.
C3_UrlFormat ==
    url # Pending =>
        /\ url = Return(UrlBase \o Pad3(coord.s) \o Pad3(coord.a) \o UrlExt)
        /\ (coord = [s |-> 94, a |-> 5]) =>
              url.val = UrlBase \o <<"0", "9", "4", "0", "0", "5", ".", "m", "p", "3">>
        /\ (coord = [s |-> 2, a |-> 286]) =>
              url.val = UrlBase \o <<"0", "0", "2", "2", "8", "6", ".", "m", "p", "3">>
        /\ (coord.s >= 1000 /\ coord.a >= 1000) => Len(url.val) > Len(UrlBase) + 6 + Len(UrlExt)

C3_Witness ==
    /\ coord = [s |-> 1000, a |-> 5]
    /\ url = Return(UrlBase \o <<"1", "0", "0", "0", "0", "0", "5">> \o UrlExt)

-----------------------------------------------------------------------------
(* The handler.  It runs in two steps, separated by its one suspension     *)
(* point, the awaited call to the completion API.                           *)

\* JSON text stands for what JSON.parse makes of it: a value, or a throw
JsonText(outcome) == [t |-> "string", v |-> <<"t", "e", "x", "t">>, parse |-> outcome]
JsonParse(text) == text.parse
SyntaxError == Throw("SyntaxError")

FeelingText == JsStr(<<"s", "a", "d">>)
Inputs == { Undefined, JsStr(<<>>), FeelingText, JsNum(7) }
BodyObject(input) == [t |-> "object", input |-> input]
BodyObjects == { BodyObject(i) : i \in Inputs }
Bodies ==
    { Undefined, Null } \cup BodyObjects
    \cup { JsonText(SyntaxError), JsonText(Return(Null)),
           JsonText(Return(BodyObject(FeelingText))),
           JsonText(Return(BodyObject(Undefined))) }
Methods == { "OPTIONS", "GET", "PUT", "POST" }
Requests == [method : Methods, body : Bodies]
Keys == { Undefined, JsStr(<<>>), JsStr(<<"s", "k">>) }

\* the references the model's reply may carry
ReplyRefs ==
    { Undefined, Null, JsStr(<<>>),
      JsStr(<<"Q", " ", "9", "4", ":", "5", EnDash, "6">>),
      JsStr(<<"Q", " ", "2", ":", "2", "8", "6">>),
      JsStr(<<"Q", " ", "2", ":", "3", "-", "1">>),
      JsStr(<<"B", "u", "k", "h", "a", "r", "i", " ", "6", "1", "1", "4">>),
      JsNum(5), JsArray, JsObject }

Quote(r) == [t |-> "object", en |-> "en", ar |-> "ar", ref |-> r]
Quotes == { Undefined } \cup { Quote(r) : r \in ReplyRefs }
Mapped(q, q2) ==
    [t |-> "object", feeling |-> "feeling", quran |-> q, quran2 |-> q2,
     hadith |-> "hadith", counsel |-> "counsel", dua |-> "dua"]
Payload(m) ==
    [t |-> "object", mapped |-> m, peptalk |-> "peptalk",
     suggestions |-> "suggestions"]
Payloads ==
    { Null, Payload(Undefined) }
    \cup { Payload(Mapped(q, q2)) : q \in Quotes, q2 \in Quotes }

\* the assistant message content: absent, text that is no JSON, JSON text
PlainText == JsonText(SyntaxError)
Contents == { Undefined, PlainText } \cup { JsonText(Return(o)) : o \in Payloads }

FetchRejected == [kind |-> "reject"]
ErrorStatuses == { 401, 429, 500 }
Replies ==
    { FetchRejected }
    \cup [kind : {"response"}, ok : {FALSE}, status : ErrorStatuses]
    \cup { [kind |-> "response", ok |-> TRUE, status |-> 200, json |-> SyntaxError] }
    \cup { [kind |-> "response", ok |-> TRUE, status |-> 200, json |-> Return(c)] :
             c \in Contents }

\* responses
EndBody == [kind |-> "end"]
ErrorBody(e) == [kind |-> "error", error |-> e]
PayloadBody(o) == [kind |-> "payload", payload |-> o]
Response(status, body) == [status |-> status, cors |-> TRUE, body |-> body]

\* lines 40-42: the body, parsed when it is a string, and body?.input
BodyOf(r) ==
    IF r.body.t = "string"
    THEN LET p == JsonParse(r.body)
         IN  IF p.kind = "throw" THEN BodyObject(Undefined) ELSE p.val
    ELSE r.body
InputOf(r) ==
    LET b == BodyOf(r) IN IF b.t = "object" THEN b.input ELSE Undefined

Proceed == [kind |-> "proceed"]
Reply(r) == [kind |-> "reply", res |-> r]

\* mutant: the check of OPENAI_API_KEY left out
ValidateNoKeyCheck(r, key) ==
    IF r.method = "OPTIONS" THEN Reply(Response(200, EndBody))
    ELSE IF r.method # "POST" THEN Reply(Response(405, ErrorBody("Use POST")))
    ELSE IF ~Truthy(InputOf(r)) \/ InputOf(r).t # "string"
         THEN Reply(Response(400, ErrorBody("Missing 'input' (string) in request body")))
    ELSE Proceed

\* lines 33-53: the checks before the outbound call, in the code's order
Validate(r, key) ==
    IF r.method = "OPTIONS" THEN Reply(Response(200, EndBody))
    ELSE IF r.method # "POST" THEN Reply(Response(405, ErrorBody("Use POST")))
    ELSE IF ~Truthy(InputOf(r)) \/ InputOf(r).t # "string"
         THEN Reply(Response(400, ErrorBody("Missing 'input' (string) in request body")))
    ELSE IF ~Truthy(key)
         THEN Reply(Response(500, ErrorBody("Server misconfigured: OPENAI_API_KEY is missing.")))
    ELSE Proceed

\* x?.mapped, x?.quran / x?.quran2, x?.ref
MappedOf(o) == IF o.t = "object" THEN o.mapped ELSE Undefined
QuoteOf(o, which) ==
    LET m == MappedOf(o) IN IF m.t = "object" THEN m[which] ELSE Undefined
RefOf(q) == IF q.t = "object" THEN q.ref ELSE Undefined

\* out.mapped[which].audio = a
SetAudio(o, which, a) ==
    LET q == o.mapped[which]
        q2 == [f \in DOMAIN q \cup {"audio"} |-> IF f = "audio" THEN a ELSE q[f]]
    IN  [o EXCEPT !.mapped = [@ EXCEPT ![which] = q2]]

\* the assignment of the outcome a of audioFromRef: a throw leaves `out`
\* as it was and leaves the try block
AssignAudio(o, which, a) ==
    IF a.kind = "throw" THEN [kind |-> "throw", error |-> a.error, val |-> o]
    ELSE Return(SetAudio(o, which, a.val))

\* if (out?.mapped?.[which]?.ref) out.mapped[which].audio = audioFromRef(ref)
EnrichWhenRef(o, which, r) ==
    IF ~Truthy(r) THEN Return(o) ELSE AssignAudio(o, which, audioFromRef(r))

\* one line of the enrichment (142 or 143), from the state `st` the previous
\* line left: nothing runs after a throw
EnrichQuote(st, which) ==
    IF st.kind = "throw" THEN st
    ELSE EnrichWhenRef(st.val, which, RefOf(QuoteOf(st.val, which)))

\* lines 141-143
Enrich(o) == EnrichQuote(EnrichQuote(Return(o), "quran"), "quran2")

\* lines 130-139: the payload parsed from an OK reply
ParsedOut(reply) ==
    LET content == IF reply.json.kind = "throw" \/ ~Truthy(reply.json.val)
                   THEN JsonText(Return(Payload(Undefined)))
                   ELSE reply.json.val
        p == JsonParse(content)
    IN  IF p.kind = "throw" THEN [t |-> "object", peptalk |-> content, mapped |-> Undefined]
        ELSE p.val

InitHandler ==
    /\ pc = "start"
    /\ req \in Requests
    /\ apiKey \in Keys
    /\ fetchCalls = 0
    /\ upstream = Undefined
    /\ out = Undefined
    /\ res = Undefined
    /\ IdleParser
    /\ IdleBuilder

\* lines 32-122: CORS headers, the checks, and the outbound call
HandlerStart ==
    /\ pc = "start"
    /\ LET v == Validate(req, apiKey)
       IN  IF v.kind = "reply"
           THEN /\ res' = v.res
                /\ pc' = "done"
                /\ UNCHANGED fetchCalls
           ELSE /\ fetchCalls' = fetchCalls + 1
                /\ pc' = "awaitFetch"
                /\ UNCHANGED res
    /\ UNCHANGED <<req, apiKey, upstream, out, parserVars, builderVars>>

\* lines 118-151 when the awaited fetch rejects: the catch block answers
FetchRejects ==
    /\ pc = "awaitFetch"
    /\ upstream' = FetchRejected
    /\ res' = Response(500, ErrorBody("Server error"))
    /\ pc' = "done"
    /\ UNCHANGED <<req, apiKey, fetchCalls, out, parserVars, builderVars>>

\* lines 124-128: a reply that is not OK is passed on with its status
FetchNotOk ==
    /\ pc = "awaitFetch"
    /\ \E reply \in Replies :
        /\ reply.kind = "response" /\ ~reply.ok
        /\ upstream' = reply
        /\ res' = Response(reply.status, ErrorBody("OpenAI error"))
    /\ pc' = "done"
    /\ UNCHANGED <<req, apiKey, fetchCalls, out, parserVars, builderVars>>

\* lines 130-151: an OK reply is parsed, enriched and answered; a throw of
\* the enrichment lands in the catch block
FetchOk ==
    /\ pc = "awaitFetch"
    /\ \E reply \in Replies :
        /\ reply.kind = "response" /\ reply.ok
        /\ upstream' = reply
        /\ \E e \in {Enrich(ParsedOut(reply))} :
               /\ out' = e.val
               /\ res' = IF e.kind = "throw"
                         THEN Response(500, ErrorBody("Server error"))
                         ELSE Response(200, PayloadBody(e.val))
    /\ pc' = "done"
    /\ UNCHANGED <<req, apiKey, fetchCalls, parserVars, builderVars>>

Next == HandlerStart \/ FetchRejects \/ FetchNotOk \/ FetchOk

Spec == InitHandler /\ [][Next]_vars

-----------------------------------------------------------------------------
(* Properties of the handler, checked under Spec *)

Done == pc = "done"
UpstreamOk == upstream # Undefined /\ upstream.kind = "response" /\ upstream.ok
UpstreamNotOk == upstream # Undefined /\ upstream.kind = "response" /\ ~upstream.ok

\* the payload the handler parsed from the reply, before the enrichment
ReplyPayload == ParsedOut(upstream)

\* C4: the enrichment never fails the request: whatever mapped.quran.ref
\* and mapped.quran2.ref are in the payload parsed from an OK reply (truthy
\* values that are no string included), the handler answers 200 with the
\* payload and never the 500 "Server error".
C4_EnrichmentNeverFails ==
    (Done /\ UpstreamOk) =>
        /\ res.status = 200
        /\ res.body = PayloadBody(out)

HasRef(q) == Truthy(RefOf(q))
OtherFields(q) == [f \in DOMAIN q \ {"audio"} |-> q[f]]

\* what the enrichment is to make of the sub-object q of the payload
EnrichedAsClaimed(q, q2) ==
    IF HasRef(q)
    THEN /\ "audio" \in DOMAIN q2
         /\ parseQuranRef(q.ref).kind = "return"
         /\ Len(q2.audio) = Len(parseQuranRef(q.ref).val)
         /\ \A i \in 1..Len(q2.audio) :
               q2.audio[i] = husaryUrl(parseQuranRef(q.ref).val[i])
         /\ OtherFields(q2) = q
    ELSE q2 = q

\* C7: for each of mapped.quran and mapped.quran2 independently: a
\* sub-object that exists and has a ref gets an audio field holding
\* husaryUrl mapped element-wise over parseQuranRef(ref); an absent
\* sub-object or ref adds no audio field and raises no error; every other
\* field of the payload is left as it was.
C7_EnrichmentFrame ==
    (Done /\ UpstreamOk /\ MappedOf(ReplyPayload).t = "object") =>
        /\ res.status = 200
        /\ res.body.kind = "payload"
        /\ \A which \in {"quran", "quran2"} :
              EnrichedAsClaimed(ReplyPayload.mapped[which],
                                res.body.payload.mapped[which])
        /\ [res.body.payload.mapped EXCEPT !.quran = 0, !.quran2 = 0]
              = [ReplyPayload.mapped EXCEPT !.quran = 0, !.quran2 = 0]
        /\ [res.body.payload EXCEPT !.mapped = 0] = [ReplyPayload EXCEPT !.mapped = 0]

InputIsText == Truthy(InputOf(req)) /\ InputOf(req).t = "string"
ChecksPass == req.method = "POST" /\ InputIsText /\ Truthy(apiKey)

\* the status a request that fails a check is answered with
RefusalStatus ==
    IF req.method = "OPTIONS" THEN 200
    ELSE IF req.method # "POST" THEN 405
    ELSE IF ~InputIsText THEN 400
    ELSE 500

\* C10: the outbound call happens at most once and only after the three
\* checks passed (POST, body.input a non-empty string, OPENAI_API_KEY set);
\* a request failing a check is answered 200 (OPTIONS), 405, 400 or 500
\* with no outbound call; the enrichment and the 200 payload response
\* happen only after an OK upstream reply; a reply that is not OK is
\* answered with the upstream status and no enrichment.
C10_CallOnlyAfterChecks ==
    /\ fetchCalls <= 1
    /\ fetchCalls = 1 => ChecksPass
    /\ (pc = "awaitFetch") => (fetchCalls = 1 /\ res = Undefined /\ out = Undefined)
    /\ (Done /\ ~ChecksPass) =>
          /\ fetchCalls = 0 /\ upstream = Undefined /\ out = Undefined
          /\ res.status = RefusalStatus
          /\ res.body.kind # "payload"
    /\ (Done /\ ChecksPass) => (fetchCalls = 1 /\ upstream # Undefined)
    /\ out # Undefined => UpstreamOk
    /\ (Done /\ res.body.kind = "payload") => (UpstreamOk /\ res.status = 200)
    /\ (Done /\ UpstreamNotOk) =>
          /\ res.status = upstream.status
          /\ res.body = ErrorBody("OpenAI error")
          /\ out = Undefined

C10_Witness ==
    /\ Done /\ fetchCalls = 1 /\ UpstreamOk
    /\ res.status = 200
    /\ res.body.kind = "payload"
    /\ QuoteOf(res.body.payload, "quran").t = "object"
    /\ "audio" \in DOMAIN res.body.payload.mapped.quran
    /\ Len(res.body.payload.mapped.quran.audio) = 2

====
